---------------------------- MODULE Spec2Model ----------------------------
(***************************************************************************)
(* Model of microsoft/testsuites/stress/tlb_flush_stress.c: the main       *)
(* thread (option parsing, setup, worker launch, join, report), the worker *)
(* threads (map / touch / access / unmap cycles, end-of-worker cleanup,    *)
(* mutex-protected merge of the counter), the signal handler and the       *)
(* wall clock read by time(NULL).                                          *)
(***************************************************************************)
EXTENDS Integers, Sequences, FiniteSets, TLC

(***************************************************************************)
(* Bounds of the model.                                                    *)
(***************************************************************************)
\* largest -i value of a run that starts workers
MaxIterations == 2
\* successful mmap calls per worker; past it mmap only fails (ENOMEM)
MaxMaps == 2
\* number of distinct region addresses the kernel hands out
NumAddr == 2
\* largest -d value of a run that starts workers
MaxDuration == 1
\* longest command line (number of options) of the option-parsing runs
MaxArgs == 2
\* largest small -p value of the page-offset runs
MaxPages == 5

(***************************************************************************)
(* Program constants.                                                      *)
(***************************************************************************)
PAGE_SIZE == 4096
DEFAULT_THREADS == 4
DEFAULT_PAGES_PER_THREAD == 1024
DEFAULT_DURATION_SECONDS == 60
DEFAULT_ITERATIONS_PER_CYCLE == 100
MAX_THREADS == 64
MAX_PAGES_PER_THREAD == 100000
MAX_ITERATIONS_PER_CYCLE == 10000

\* (void *) -1, the value mmap returns on failure and the empty-slot marker
MAP_FAILED == -1
\* a slot of the malloc'ed table that was never written
UNINIT == -2
\* an address that no mmap call of this process returned
WILD == 0
\* region addresses mmap can return
Addr == 1..NumAddr
\* owner of an address that is not mapped
NoOwner == -1
\* the largest value of an int (the type of i, j, page_offset and of the
\* products and the sum computed from them)
INT_MAX == 2147483647
\* counter_mutex is free
NoHolder == -1

(***************************************************************************)
(* atoi: optional sign, then the leading decimal digits; 0 if none.        *)
(* An option argument is a sequence of one-character strings.              *)
(***************************************************************************)
DigitChars == {"0", "1", "2", "3", "4", "5", "6", "7", "8", "9"}

DigitVal(c) ==
    CASE c = "0" -> 0 [] c = "1" -> 1 [] c = "2" -> 2 [] c = "3" -> 3
      [] c = "4" -> 4 [] c = "5" -> 5 [] c = "6" -> 6 [] c = "7" -> 7
      [] c = "8" -> 8 [] c = "9" -> 9

RECURSIVE atoiDigits(_, _, _)
atoiDigits(s, k, acc) ==
    IF k > Len(s) \/ s[k] \notin DigitChars
    THEN acc
    ELSE atoiDigits(s, k + 1, acc * 10 + DigitVal(s[k]))

atoi(s) ==
    IF s = <<>> THEN 0
    ELSE IF s[1] = "-" THEN 0 - atoiDigits(s, 2, 0)
    ELSE IF s[1] = "+" THEN atoiDigits(s, 2, 0)
    ELSE atoiDigits(s, 1, 0)

(***************************************************************************)
(* The range checks of main's option switch.                               *)
(***************************************************************************)
\* a range check that lets 0 through
InvalidThreads_ZeroAllowed(n) == n < 0 \/ n > MAX_THREADS

InvalidThreads(n) == n <= 0 \/ n > MAX_THREADS

InvalidPages(n) == n <= 0 \/ n > MAX_PAGES_PER_THREAD

InvalidDuration(n) == n <= 0

InvalidIterations(n) == n <= 0 \/ n > MAX_ITERATIONS_PER_CYCLE

(***************************************************************************)
(* Command lines.  One element per option getopt returns: the option       *)
(* letter ("?" for an unknown option or a missing argument) and optarg.    *)
(***************************************************************************)
Str(n) == <<CHOOSE c \in DigitChars : DigitVal(c) = n>>

Option(o, a) == [opt |-> o, arg |-> a]

\* the runs that start workers: one worker with a table of 1..MaxIterations
\* slots, or two workers with one slot each
RunConfigs ==
    { <<1, m>> : m \in 1..MaxIterations } \cup { <<2, 1>> }

\* their command lines: -t n -i m -d k
RunArgv ==
    { <<Option("t", Str(c[1])), Option("i", Str(c[2])), Option("d", Str(k))>> :
        c \in RunConfigs, k \in 1..MaxDuration }

\* option arguments of the option-parsing runs: for every option the lower
\* end of its range, the value below it, and text atoi reads as 0 or cuts
\* short; for -t, -p and -i the upper end of the range and the value above
ArgStrings(o) ==
    { <<"0">>, <<"1">>, <<"-", "1">>, <<"x">>, <<"2", "x">> } \cup
    CASE o = "t" -> { <<"6", "4">>, <<"6", "5">> }
      [] o = "p" -> { <<"1", "0", "0", "0", "0", "0">>,
                      <<"1", "0", "0", "0", "0", "1">> }
      [] o = "i" -> { <<"1", "0", "0", "0", "0">>, <<"1", "0", "0", "0", "1">> }
      [] OTHER -> {}

Options ==
    UNION { { Option(o, a) : a \in ArgStrings(o) } : o \in {"t", "p", "d", "i"} }
      \cup { Option("h", <<>>), Option("?", <<>>) }

RECURSIVE SeqsUpTo(_, _)
SeqsUpTo(S, n) ==
    IF n = 0 THEN { <<>> }
    ELSE LET shorter == SeqsUpTo(S, n - 1)
         IN  shorter \cup { Append(s, x) : s \in { t \in shorter : Len(t) = n - 1 }, x \in S }

AnyArgv == SeqsUpTo(Options, MaxArgs)

VARIABLES
    \* main
    argv, optind, num_threads, pages_per_thread, duration_seconds,
    iterations_per_cycle, mainpc, mi, exit_status, threads, thread_data,
    \* globals
    keep_running, total_tlb_flushes, counter_mutex,
    \* workers
    wpc, wi, memory_regions, elapsed, sum,
    \* the process's address space and fate
    mapped, crashed,
    \* history
    nMapped, unmapFailed, joinCalls, createFailed, allocFailed,
    sigDelivered, merges, reported,
    \* the locals of the worker's inner loops (the page loops of one slot)
    inner, region_size, slot_i, wj, page_offset, page, overflow

mainVars == <<argv, optind, num_threads, pages_per_thread, duration_seconds,
              iterations_per_cycle, mainpc, mi, exit_status, threads>>

workerVars == <<wpc, wi, memory_regions, elapsed, sum>>

historyVars == <<nMapped, unmapFailed, joinCalls, createFailed, allocFailed,
                 sigDelivered, merges, reported>>

offsetVars == <<inner, region_size, slot_i, wj, page_offset, page, overflow>>

vars == <<mainVars, thread_data, keep_running, total_tlb_flushes,
          counter_mutex, workerVars, mapped, crashed, historyVars,
          offsetVars>>


(***************************************************************************)
(* State after process start: main's locals hold their defaults, the       *)
(* globals their static initialisers, nothing is mapped.                   *)
(***************************************************************************)
InitWith(argvs) ==
    /\ argv \in argvs
    /\ optind = 1
    /\ num_threads = DEFAULT_THREADS
    /\ pages_per_thread = DEFAULT_PAGES_PER_THREAD
    /\ duration_seconds = DEFAULT_DURATION_SECONDS
    /\ iterations_per_cycle = DEFAULT_ITERATIONS_PER_CYCLE
    /\ mainpc = "parse"
    /\ mi = 0
    /\ exit_status = -1
    /\ threads = <<>>
    /\ thread_data = <<>>
    /\ keep_running = 1
    /\ total_tlb_flushes = 0
    /\ counter_mutex = NoHolder
    /\ wpc = <<>>
    /\ wi = <<>>
    /\ memory_regions = <<>>
    /\ elapsed = <<>>
    /\ sum = <<>>
    /\ mapped = [a \in Addr |-> NoOwner]
    /\ crashed = FALSE
    /\ nMapped = <<>>
    /\ unmapFailed = {}
    /\ joinCalls = {}
    /\ createFailed = -1
    /\ allocFailed = {}
    /\ sigDelivered = "no"
    /\ merges = <<>>
    /\ reported = -1
    /\ inner = "none"
    /\ region_size = 0
    /\ slot_i = 0
    /\ wj = 0
    /\ page_offset = 0
    /\ page = 0
    /\ overflow = FALSE

Init == InitWith(RunArgv)

InitArgs == InitWith(AnyArgv)

\* the process is still running: main has not returned and no fatal signal
alive == ~crashed /\ mainpc # "exited"

Workers == DOMAIN wpc

\* a worker that was started and has not returned
Running(w) == wpc[w] \notin {"idle", "returned"}

(***************************************************************************)
(* main                                                                    *)
(***************************************************************************)
\* return from main with the given status
Exit(status) ==
    /\ mainpc' = "exited"
    /\ exit_status' = status

\* one iteration of the getopt loop
ParseOpt ==
    /\ alive
    /\ mainpc = "parse"
    /\ IF optind > Len(argv)
       THEN /\ mainpc' = "setup"
            /\ UNCHANGED <<optind, num_threads, pages_per_thread,
                           duration_seconds, iterations_per_cycle, exit_status>>
       ELSE LET o == argv[optind].opt
                n == atoi(argv[optind].arg)
            IN  /\ optind' = optind + 1
                /\ num_threads' = IF o = "t" THEN n ELSE num_threads
                /\ pages_per_thread' = IF o = "p" THEN n ELSE pages_per_thread
                /\ duration_seconds' = IF o = "d" THEN n ELSE duration_seconds
                /\ iterations_per_cycle' =
                       IF o = "i" THEN n ELSE iterations_per_cycle
                /\ CASE o = "t" -> IF InvalidThreads(n) THEN Exit(1)
                                   ELSE UNCHANGED <<mainpc, exit_status>>
                     [] o = "p" -> IF InvalidPages(n) THEN Exit(1)
                                   ELSE UNCHANGED <<mainpc, exit_status>>
                     [] o = "d" -> IF InvalidDuration(n) THEN Exit(1)
                                   ELSE UNCHANGED <<mainpc, exit_status>>
                     [] o = "i" -> IF InvalidIterations(n) THEN Exit(1)
                                   ELSE UNCHANGED <<mainpc, exit_status>>
                     [] o = "h" -> Exit(0)
                     [] OTHER -> Exit(1)
    /\ UNCHANGED offsetVars
    /\ UNCHANGED <<argv, mi, threads, thread_data, keep_running,
                   total_tlb_flushes, counter_mutex, workerVars, mapped,
                   crashed, historyVars>>

\* a thread_data element as malloc leaves it
UninitData ==
    [pages_per_thread |-> UNINIT, duration_seconds |-> UNINIT,
     iterations_per_cycle |-> UNINIT, thread_tlb_flushes |-> UNINIT]

\* the banner, the signal handlers, the two arrays, test_start
Setup ==
    /\ alive
    /\ mainpc = "setup"
    /\ \E ok \in BOOLEAN :
         IF ok
         THEN LET W == 0..(num_threads - 1)
              IN  /\ threads' = [w \in W |-> "uninit"]
                  /\ thread_data' = [w \in W |-> UninitData]
                  /\ wpc' = [w \in W |-> "idle"]
                  /\ wi' = [w \in W |-> 0]
                  /\ memory_regions' = [w \in W |-> <<>>]
                  /\ elapsed' = [w \in W |-> 0]
                  /\ sum' = [w \in W |-> 0]
                  /\ nMapped' = [w \in W |-> 0]
                  /\ merges' = [w \in W |-> 0]
                  /\ mainpc' = "create"
                  /\ mi' = 0
                  /\ UNCHANGED exit_status
         ELSE /\ Exit(1)
              /\ UNCHANGED <<threads, thread_data, wpc, wi, memory_regions,
                             elapsed, sum, nMapped, merges, mi>>
    /\ UNCHANGED offsetVars
    /\ UNCHANGED <<argv, optind, num_threads, pages_per_thread,
                   duration_seconds, iterations_per_cycle, keep_running,
                   total_tlb_flushes, counter_mutex, mapped, crashed,
                   unmapFailed, joinCalls, createFailed, allocFailed,
                   sigDelivered, reported>>

\* the thread_data element main fills in before pthread_create
FilledData ==
    [pages_per_thread |-> pages_per_thread,
     duration_seconds |-> duration_seconds,
     iterations_per_cycle |-> iterations_per_cycle,
     thread_tlb_flushes |-> 0]

\* one iteration of the launch loop; the loop ends after the last worker,
\* or at the first pthread_create that fails
CreateThread ==
    /\ alive
    /\ mainpc = "create"
    /\ IF mi < num_threads
       THEN /\ thread_data' = [thread_data EXCEPT ![mi] = FilledData]
            /\ \E ok \in BOOLEAN :
                 IF ok
                 THEN /\ threads' = [threads EXCEPT ![mi] = "tid"]
                      /\ wpc' = [wpc EXCEPT ![mi] = "start"]
                      /\ mi' = IF mi + 1 < num_threads THEN mi + 1 ELSE 0
                      /\ mainpc' = IF mi + 1 < num_threads THEN "create" ELSE "join"
                      /\ UNCHANGED <<keep_running, createFailed>>
                 ELSE /\ keep_running' = 0
                      /\ createFailed' = mi
                      /\ mainpc' = "join"
                      /\ mi' = 0
                      /\ UNCHANGED <<threads, wpc>>
       ELSE /\ mainpc' = "join"
            /\ mi' = 0
            /\ UNCHANGED <<thread_data, threads, wpc, keep_running,
                           createFailed>>
    /\ UNCHANGED offsetVars
    /\ UNCHANGED <<argv, optind, num_threads, pages_per_thread,
                   duration_seconds, iterations_per_cycle, exit_status,
                   total_tlb_flushes, counter_mutex, wi, memory_regions,
                   elapsed, sum, mapped, crashed, nMapped, unmapFailed,
                   joinCalls, allocFailed, sigDelivered, merges, reported>>

\* the indices the join loop visits
JoinRange == 0..(num_threads - 1)

\* one iteration of the join loop.  pthread_join on a pthread_t that
\* pthread_create never wrote is undefined: it returns an error or faults.
JoinThread ==
    /\ alive
    /\ mainpc = "join"
    /\ IF mi \in JoinRange
       THEN /\ joinCalls' = joinCalls \cup {mi}
            /\ mi' = mi + 1
            /\ mainpc' = IF mi + 1 \in JoinRange THEN "join" ELSE "report"
            /\ IF threads[mi] = "tid"
               THEN /\ wpc[mi] = "returned"
                    /\ UNCHANGED crashed
               ELSE crashed' \in BOOLEAN
       ELSE /\ mainpc' = "report"
            /\ UNCHANGED <<mi, joinCalls, crashed>>
    /\ UNCHANGED offsetVars
    /\ UNCHANGED <<argv, optind, num_threads, pages_per_thread,
                   duration_seconds, iterations_per_cycle, exit_status,
                   threads, thread_data, keep_running, total_tlb_flushes,
                   counter_mutex, workerVars, mapped, nMapped, unmapFailed,
                   createFailed, allocFailed, sigDelivered, merges,
                   reported>>

\* the summary (main reads total_tlb_flushes) and return 0
Report ==
    /\ alive
    /\ mainpc = "report"
    /\ reported' = total_tlb_flushes
    /\ Exit(0)
    /\ UNCHANGED offsetVars
    /\ UNCHANGED <<argv, optind, num_threads, pages_per_thread,
                   duration_seconds, iterations_per_cycle, mi, threads,
                   thread_data, keep_running, total_tlb_flushes,
                   counter_mutex, workerVars, mapped, crashed, nMapped,
                   unmapFailed, joinCalls, createFailed, allocFailed,
                   sigDelivered, merges>>

(***************************************************************************)
(* signal_handler, once the handlers are installed                         *)
(***************************************************************************)
Signal ==
    /\ alive
    /\ mainpc \in {"create", "join", "report"}
    /\ sigDelivered = "no"
    /\ keep_running' = 0
    /\ sigDelivered' = IF \E w \in Workers : Running(w) THEN "running" ELSE "idle"
    /\ UNCHANGED offsetVars
    /\ UNCHANGED <<mainVars, thread_data, total_tlb_flushes, counter_mutex,
                   workerVars, mapped, crashed, nMapped, unmapFailed,
                   joinCalls, createFailed, allocFailed, merges, reported>>

(***************************************************************************)
(* The kernel and the C library as the workers see them                    *)
(***************************************************************************)
\* what mmap can return to worker w: MAP_FAILED, or an address not in use
MmapResults(w) ==
    {MAP_FAILED} \cup
      (IF nMapped[w] < MaxMaps THEN { a \in Addr : mapped[a] = NoOwner } ELSE {})

\* the values a read of a table slot can yield: what was stored, or, for a
\* slot never written since malloc, any pointer value
SlotValues(x) ==
    IF x = UNINIT THEN {MAP_FAILED, WILD} \cup Addr ELSE {x}

\* a test that skips no slot
IsEmptySlot_Never(v) == FALSE

\* the test that skips a slot in the access, unmap and cleanup loops
IsEmptySlot(v) == v = MAP_FAILED

\* munmap(v, region_size) returning ok: a successful call removes whatever
\* is mapped at v (not an error if nothing is); a failed call changes nothing
Munmap(v, ok) ==
    IF ok
    THEN /\ mapped' = [mapped EXCEPT ![v] = NoOwner]
         /\ unmapFailed' = unmapFailed \ {v}
    ELSE /\ unmapFailed' = IF mapped[v] # NoOwner THEN unmapFailed \cup {v}
                           ELSE unmapFailed
         /\ UNCHANGED mapped

\* a load or store through v: SIGSEGV when nothing is mapped there; through
\* an address mmap never returned it may or may not fault
Faults(v) ==
    IF v \in Addr THEN {mapped[v] = NoOwner} ELSE BOOLEAN

\* the loop condition  i < data->iterations_per_cycle && keep_running
PhaseContinues(w) ==
    wi[w] < thread_data[w].iterations_per_cycle /\ keep_running = 1

\* i++ at the end of a phase's loop body: the next slot of the phase, or,
\* past the last slot (the loop condition then fails on i alone), the
\* first slot of the phase that follows
Advance(w, here, next) ==
    IF wi[w] + 1 < thread_data[w].iterations_per_cycle
    THEN /\ wi' = [wi EXCEPT ![w] = @ + 1]
         /\ wpc' = [wpc EXCEPT ![w] = here]
    ELSE /\ wi' = [wi EXCEPT ![w] = 0]
         /\ wpc' = [wpc EXCEPT ![w] = next]

\* a phase's loop condition fails: on keep_running = 0 every later loop
\* condition of the cycle and the while condition read 0 as well (nothing
\* sets the flag back), so the worker is next at the cleanup loop; on i
\* alone the next phase starts
LeavePhase(w, next) ==
    /\ wi' = [wi EXCEPT ![w] = 0]
    /\ wpc' = [wpc EXCEPT ![w] = IF keep_running = 0 THEN "cleanup" ELSE next]

unchangedByWorker ==
    <<mainVars, keep_running, joinCalls, createFailed, sigDelivered, reported,
      offsetVars>>

(***************************************************************************)
(* tlb_flush_worker                                                        *)
(***************************************************************************)
\* entry up to the cycle loop: the table, start_time, the counter
WorkerStart(w) ==
    /\ alive
    /\ wpc[w] = "start"
    /\ \E ok \in BOOLEAN :
         IF ok
         THEN /\ memory_regions' =
                   [memory_regions EXCEPT
                      ![w] = [k \in 1..thread_data[w].iterations_per_cycle |-> UNINIT]]
              /\ elapsed' = [elapsed EXCEPT ![w] = 0]
              /\ thread_data' = [thread_data EXCEPT ![w].thread_tlb_flushes = 0]
              /\ wpc' = [wpc EXCEPT ![w] = "loop"]
              /\ UNCHANGED allocFailed
         ELSE /\ allocFailed' = allocFailed \cup {w}
              /\ wpc' = [wpc EXCEPT ![w] = "returned"]
              /\ UNCHANGED <<memory_regions, elapsed, thread_data>>
    /\ UNCHANGED <<unchangedByWorker, total_tlb_flushes, counter_mutex, wi,
                   sum, mapped, crashed, nMapped, unmapFailed, merges>>

\* the time test at the top of a cycle
TimeIsUp(w) == elapsed[w] >= thread_data[w].duration_seconds

\* while (keep_running) and the duration test
LoopTop(w) ==
    /\ alive
    /\ wpc[w] = "loop"
    /\ wi' = [wi EXCEPT ![w] = 0]
    /\ wpc' = [wpc EXCEPT ![w] = IF keep_running = 0 \/ TimeIsUp(w)
                                  THEN "cleanup" ELSE "map"]
    /\ UNCHANGED <<unchangedByWorker, thread_data, total_tlb_flushes,
                   counter_mutex, memory_regions, elapsed, sum, mapped,
                   crashed, nMapped, unmapFailed, allocFailed, merges>>

\* phase 1, one slot: the loop condition and mmap
MapSlot(w) ==
    /\ alive
    /\ wpc[w] = "map"
    /\ IF PhaseContinues(w)
       THEN \E r \in MmapResults(w) :
              /\ memory_regions' = [memory_regions EXCEPT ![w][wi[w] + 1] = r]
              /\ IF r = MAP_FAILED
                 THEN /\ Advance(w, "map", "access")
                      /\ UNCHANGED <<mapped, nMapped>>
                 ELSE /\ wpc' = [wpc EXCEPT ![w] = "touch"]
                      /\ mapped' = [mapped EXCEPT ![r] = w]
                      /\ nMapped' = [nMapped EXCEPT ![w] = @ + 1]
                      /\ UNCHANGED wi
       ELSE /\ LeavePhase(w, "access")
            /\ UNCHANGED <<memory_regions, mapped, nMapped>>
    /\ UNCHANGED <<unchangedByWorker, thread_data, total_tlb_flushes,
                   counter_mutex, elapsed, sum, crashed, unmapFailed,
                   allocFailed, merges>>

\* phase 1, one slot: the write to every page of the region just mapped
TouchRegion(w) ==
    /\ alive
    /\ wpc[w] = "touch"
    /\ crashed' \in Faults(memory_regions[w][wi[w] + 1])
    /\ Advance(w, "map", "access")
    /\ UNCHANGED <<unchangedByWorker, thread_data, total_tlb_flushes,
                   counter_mutex, memory_regions, elapsed, sum, mapped,
                   nMapped, unmapFailed, allocFailed, merges>>

\* phase 2, one slot: the loop condition and the strided read-then-write
AccessSlot(w) ==
    /\ alive
    /\ wpc[w] = "access"
    /\ IF PhaseContinues(w)
       THEN /\ \E v \in SlotValues(memory_regions[w][wi[w] + 1]) :
                 IF IsEmptySlot(v) THEN UNCHANGED crashed
                 ELSE crashed' \in Faults(v)
            /\ Advance(w, "access", "unmap")
       ELSE /\ LeavePhase(w, "unmap")
            /\ UNCHANGED crashed
    /\ UNCHANGED <<unchangedByWorker, thread_data, total_tlb_flushes,
                   counter_mutex, memory_regions, elapsed, sum, mapped,
                   nMapped, unmapFailed, allocFailed, merges>>

\* a count of flushed pages in place of released regions
CountFlush_Pages(n, ok) == IF ok THEN n + pages_per_thread ELSE n

\* the counter after a munmap call of phase 3 that returned ok
CountFlush(n, ok) == IF ok THEN n + 1 ELSE n

\* a slot that keeps its handle after munmap
EmptiedSlot_Kept(v) == v

\* the slot after the munmap call of phase 3, whatever the call returned
EmptiedSlot(v) == MAP_FAILED

\* phase 3, one slot: the loop condition, munmap, the count, the slot
\* emptied; after the last slot the 1 ms sleep
UnmapSlot(w) ==
    /\ alive
    /\ wpc[w] = "unmap"
    /\ IF PhaseContinues(w)
       THEN /\ \E v \in SlotValues(memory_regions[w][wi[w] + 1]) :
                 IF IsEmptySlot(v)
                 THEN UNCHANGED <<mapped, unmapFailed, thread_data,
                                  memory_regions, crashed>>
                 ELSE /\ IF v \in Addr
                         THEN \E ok \in BOOLEAN :
                                /\ Munmap(v, ok)
                                /\ thread_data' =
                                     [thread_data EXCEPT
                                        ![w].thread_tlb_flushes = CountFlush(@, ok)]
                                /\ UNCHANGED crashed
                         ELSE /\ crashed' \in BOOLEAN
                              /\ UNCHANGED <<mapped, unmapFailed, thread_data>>
                      /\ memory_regions' =
                           [memory_regions EXCEPT ![w][wi[w] + 1] = EmptiedSlot(v)]
            /\ Advance(w, "unmap", "loop")
       ELSE /\ LeavePhase(w, "loop")
            /\ UNCHANGED <<mapped, unmapFailed, thread_data, memory_regions,
                           crashed>>
    /\ UNCHANGED <<unchangedByWorker, total_tlb_flushes, counter_mutex,
                   elapsed, sum, nMapped, allocFailed, merges>>

\* no cleanup loop
CleanupContinues_Never(w) == FALSE

\* the slots the cleanup loop visits
CleanupContinues(w) == wi[w] < thread_data[w].iterations_per_cycle

\* the cleanup loop, one slot (the result of munmap is ignored); after the
\* last slot, free(memory_regions)
CleanupSlot(w) ==
    /\ alive
    /\ wpc[w] = "cleanup"
    /\ IF CleanupContinues(w)
       THEN /\ \E v \in SlotValues(memory_regions[w][wi[w] + 1]) :
                 IF IsEmptySlot(v)
                 THEN UNCHANGED <<mapped, unmapFailed, crashed>>
                 ELSE IF v \in Addr
                      THEN /\ \E ok \in BOOLEAN : Munmap(v, ok)
                           /\ UNCHANGED crashed
                      ELSE /\ crashed' \in BOOLEAN
                           /\ UNCHANGED <<mapped, unmapFailed>>
            /\ Advance(w, "cleanup", "lock")
            /\ memory_regions' =
                 IF wi[w] + 1 < thread_data[w].iterations_per_cycle
                 THEN memory_regions
                 ELSE [memory_regions EXCEPT ![w] = <<>>]
       ELSE /\ wpc' = [wpc EXCEPT ![w] = "lock"]
            /\ memory_regions' = [memory_regions EXCEPT ![w] = <<>>]
            /\ UNCHANGED <<wi, mapped, unmapFailed, crashed>>
    /\ UNCHANGED <<unchangedByWorker, thread_data, total_tlb_flushes,
                   counter_mutex, elapsed, sum, nMapped, allocFailed, merges>>

\* a lock that excludes nobody
MutexFree_Always == TRUE

\* pthread_mutex_lock can return
MutexFree == counter_mutex = NoHolder

\* pthread_mutex_lock(&counter_mutex) and the load of  total_tlb_flushes += ...
MergeLock(w) ==
    /\ alive
    /\ wpc[w] = "lock"
    /\ MutexFree
    /\ counter_mutex' = w
    /\ sum' = [sum EXCEPT ![w] = total_tlb_flushes + thread_data[w].thread_tlb_flushes]
    /\ wpc' = [wpc EXCEPT ![w] = "store"]
    /\ UNCHANGED <<unchangedByWorker, thread_data, total_tlb_flushes, wi,
                   memory_regions, elapsed, mapped, crashed, nMapped,
                   unmapFailed, allocFailed, merges>>

\* the store of  total_tlb_flushes += ..., pthread_mutex_unlock, the closing
\* printf and return NULL
MergeStore(w) ==
    /\ alive
    /\ wpc[w] = "store"
    /\ total_tlb_flushes' = sum[w]
    /\ sum' = [sum EXCEPT ![w] = 0]
    /\ merges' = [merges EXCEPT ![w] = @ + 1]
    /\ counter_mutex' = NoHolder
    /\ wpc' = [wpc EXCEPT ![w] = "returned"]
    /\ UNCHANGED <<unchangedByWorker, thread_data, wi, memory_regions,
                   elapsed, mapped, crashed, nMapped, unmapFailed,
                   allocFailed>>

(***************************************************************************)
(* The wall clock: one second passes.  elapsed[w] is what                  *)
(* time(NULL) - start_time evaluates to in worker w; it is kept up to the  *)
(* worker's duration, past which the time test no longer tells values      *)
(* apart.                                                                  *)
(***************************************************************************)
Timed(w) ==
    /\ wpc[w] \notin {"idle", "start", "returned"}
    /\ elapsed[w] < thread_data[w].duration_seconds

Tick ==
    /\ alive
    /\ \E w \in Workers : Timed(w)
    /\ elapsed' = [w \in Workers |-> IF Timed(w) THEN elapsed[w] + 1 ELSE elapsed[w]]
    /\ UNCHANGED offsetVars
    /\ UNCHANGED <<mainVars, thread_data, keep_running, total_tlb_flushes,
                   counter_mutex, wpc, wi, memory_regions, sum, mapped,
                   crashed, historyVars>>

Next ==
    \/ ParseOpt
    \/ Setup
    \/ CreateThread
    \/ JoinThread
    \/ Report
    \/ Signal
    \/ Tick
    \/ \E w \in Workers : WorkerStart(w)
    \/ \E w \in Workers : LoopTop(w)
    \/ \E w \in Workers : MapSlot(w)
    \/ \E w \in Workers : TouchRegion(w)
    \/ \E w \in Workers : AccessSlot(w)
    \/ \E w \in Workers : UnmapSlot(w)
    \/ \E w \in Workers : CleanupSlot(w)
    \/ \E w \in Workers : MergeLock(w)
    \/ \E w \in Workers : MergeStore(w)

Spec == Init /\ [][Next]_vars

\* the option-parsing runs: main up to the end of the launch loop
NextArgs == ParseOpt \/ Setup \/ CreateThread

SpecArgs == InitArgs /\ [][NextArgs]_vars

(***************************************************************************)
(* The page loops of one slot: the arithmetic of region_size, of the touch *)
(* loop and of the strided access loop, in int, for the values main has    *)
(* parsed and validated.                                                   *)
(***************************************************************************)
\* the decimal text of a natural number
RECURSIVE Decimal(_)
Decimal(n) == IF n < 10 THEN Str(n) ELSE Decimal(n \div 10) \o Str(n % 10)

\* -p and -i values of the page-offset runs: the small values, the upper
\* end of the range and the value below it, and values past the range
PageArgs ==
    { Decimal(n) : n \in (0..MaxPages) \cup
                         {MAX_PAGES_PER_THREAD - 1, MAX_PAGES_PER_THREAD,
                          MAX_PAGES_PER_THREAD + 1, 10 * MAX_PAGES_PER_THREAD} }

IterationArgs ==
    { Decimal(n) : n \in (0..MaxIterations) \cup
                         {MAX_ITERATIONS_PER_CYCLE, MAX_ITERATIONS_PER_CYCLE + 1} }

\* their command lines: -p P -i N
OffsetArgv ==
    { <<Option("p", a), Option("i", b)>> : a \in PageArgs, b \in IterationArgs }

InitOffsets == InitWith(OffsetArgv)

\* the product and the sum of two non-negative ints are representable
MulFits(a, b) == b = 0 \/ a <= INT_MAX \div b

AddFits(a, b) == a <= INT_MAX - b

\* what an int expression that overflowed can evaluate to
AnyInt == {0 - INT_MAX, -1, 0, INT_MAX}

\* a page offset taken without the remainder
PageOffset_NoMod(j, i, n) == j * 17 + i * 13

\* (j * 17 + i * 13) % data->pages_per_thread
PageOffset(j, i, n) == (j * 17 + i * 13) % n

\* j * 17, i * 13 and their sum are representable
StrideFits(j, i) ==
    /\ MulFits(j, 17)
    /\ MulFits(i, 13)
    /\ AddFits(j * 17, i * 13)

\* the slots whose page loops are run: the first and the last of the table
SlotIndexes == {0, iterations_per_cycle - 1}

processVars == <<mainVars, thread_data, keep_running, total_tlb_flushes,
                 counter_mutex, workerVars, mapped, crashed, historyVars>>

\* signed overflow: the value is indeterminate and so is what follows
Overflows ==
    /\ overflow' = TRUE
    /\ inner' = "undefined"

\* entry of a worker, given the validated values: region_size; then one
\* of the page loops of one slot, the touch loop of phase 1 or the access
\* loop of phase 2
InnerEntry ==
    /\ mainpc = "setup"
    /\ inner = "none"
    /\ slot_i' \in SlotIndexes
    /\ IF MulFits(FilledData.pages_per_thread, PAGE_SIZE)
       THEN /\ region_size' = FilledData.pages_per_thread * PAGE_SIZE
            /\ inner' \in {"touch", "access"}
            /\ UNCHANGED overflow
       ELSE /\ region_size' \in AnyInt
            /\ Overflows
    /\ UNCHANGED <<processVars, wj, page_offset, page>>

\* the touch loop, one page:  page = memory_regions[i] + (j * PAGE_SIZE)
TouchPage ==
    /\ inner = "touch"
    /\ IF wj < FilledData.pages_per_thread
       THEN /\ IF MulFits(wj, PAGE_SIZE)
               THEN /\ page' = wj * PAGE_SIZE
                    /\ wj' = wj + 1
                    /\ UNCHANGED <<inner, overflow>>
               ELSE /\ page' \in AnyInt
                    /\ Overflows
                    /\ UNCHANGED wj
       ELSE /\ inner' = "done"
            /\ UNCHANGED <<wj, page, overflow>>
    /\ UNCHANGED <<processVars, region_size, slot_i, page_offset>>

\* the access loop, one page:  page_offset, then
\* page = memory_regions[i] + (page_offset * PAGE_SIZE);  j += 4
AccessPage ==
    /\ inner = "access"
    /\ IF wj < FilledData.pages_per_thread
       THEN IF StrideFits(wj, slot_i)
            THEN LET offset == PageOffset(wj, slot_i, FilledData.pages_per_thread)
                 IN  /\ page_offset' = offset
                     /\ IF MulFits(offset, PAGE_SIZE)
                        THEN /\ page' = offset * PAGE_SIZE
                             /\ wj' = wj + 4
                             /\ UNCHANGED <<inner, overflow>>
                        ELSE /\ page' \in AnyInt
                             /\ Overflows
                             /\ UNCHANGED wj
            ELSE /\ page_offset' \in AnyInt
                 /\ Overflows
                 /\ UNCHANGED <<wj, page>>
       ELSE /\ inner' = "done"
            /\ UNCHANGED <<wj, page_offset, page, overflow>>
    /\ UNCHANGED <<processVars, region_size, slot_i>>

NextOffsets == ParseOpt \/ InnerEntry \/ TouchPage \/ AccessPage

SpecOffsets == InitOffsets /\ [][NextOffsets]_vars

(***************************************************************************)
(* Properties                                                              *)
(***************************************************************************)
\* the workers pthread_create started
Started == { w \in Workers : threads[w] = "tid" }

RECURSIVE SumOver(_, _)
SumOver(f, S) ==
    IF S = {} THEN 0
    ELSE LET x == CHOOSE y \in S : TRUE
         IN  f[x] + SumOver(f, S \ {x})

\* the per-thread flush counters of the started workers
Flushes == [w \in Started |-> thread_data[w].thread_tlb_flushes]

\* C1 as stated: when the process has exited, nothing is mapped, also when
\* munmap calls failed
C1_Original ==
    mainpc = "exited" => \A a \in Addr : mapped[a] = NoOwner

\* C1 as amended: a region that a worker mapped is still mapped once that
\* worker has returned only if a munmap call on it failed; every other
\* region was released in the unmap phase or in the cleanup loop
C1_Released ==
    \A w \in Workers :
        wpc[w] = "returned" =>
            \A a \in Addr : mapped[a] = w => a \in unmapFailed

\* a worker stopped by the signal in mid-cycle has returned: a region it
\* mapped was not counted as a flush, and nothing is left mapped
C1_Witness ==
    \E w \in Workers :
        /\ wpc[w] = "returned"
        /\ sigDelivered = "running"
        /\ nMapped[w] > thread_data[w].thread_tlb_flushes
        /\ unmapFailed = {}
        /\ \A a \in Addr : mapped[a] = NoOwner

\* C2 as stated: after SIGINT or SIGTERM arrived with workers running (and
\* every pthread_create succeeded), the process does not die, and when it
\* has exited the status is 0 and every worker has returned and was joined
C2_Original ==
    (sigDelivered = "running" /\ createFailed = -1) =>
        /\ ~crashed
        /\ mainpc = "exited" =>
              /\ exit_status = 0
              /\ \A w \in Started : wpc[w] = "returned" /\ w \in joinCalls

\* C3: the total main reads after the joins is the sum of the started
\* workers' flush counters
C3_TotalIsSum ==
    reported >= 0 => reported = SumOver(Flushes, Started)

\* main has read a total to which two workers each added a count
C3_Witness ==
    /\ reported >= 2
    /\ Cardinality({ w \in Started : thread_data[w].thread_tlb_flushes >= 1 }) = 2

\* C4: a worker's flush counter never exceeds the number of its mmap calls
\* that succeeded, and the global total never exceeds their sum
C4_FlushesBounded ==
    /\ \A w \in Started : thread_data[w].thread_tlb_flushes <= nMapped[w]
    /\ total_tlb_flushes <= SumOver(nMapped, Workers)

\* a worker has counted every region it mapped, over two cycles or slots,
\* and the total holds both
C4_Witness ==
    \E w \in Started :
        /\ nMapped[w] = 2
        /\ thread_data[w].thread_tlb_flushes = 2
        /\ total_tlb_flushes = 2

\* the documented range of each option
InRange(o, n) ==
    CASE o = "t" -> n >= 1 /\ n <= MAX_THREADS
      [] o = "p" -> n >= 1 /\ n <= MAX_PAGES_PER_THREAD
      [] o = "d" -> n >= 1
      [] o = "i" -> n >= 1 /\ n <= MAX_ITERATIONS_PER_CYCLE

\* the k-th option of the command line carries a value outside its range
Carries(k) ==
    /\ argv[k].opt \in {"t", "p", "d", "i"}
    /\ ~InRange(argv[k].opt, atoi(argv[k].arg))

\* the value of the last occurrence of option o, or its default
LastValue(o, default) ==
    LET ks == { k \in 1..Len(argv) : argv[k].opt = o }
    IN  IF ks = {} THEN default
        ELSE atoi(argv[CHOOSE k \in ks : \A j \in ks : j <= k].arg)

\* the command line is rejected: status 1, and main never got past parsing
Rejected ==
    /\ Started = {}
    /\ mainpc \in {"parse", "exited"}
    /\ mainpc = "exited" => exit_status = 1

\* every started worker was handed the values given on the command line
GivenUnchanged ==
    /\ Workers # {} => Cardinality(Workers) = LastValue("t", DEFAULT_THREADS)
    /\ \A w \in Started :
          /\ thread_data[w].pages_per_thread =
                 LastValue("p", DEFAULT_PAGES_PER_THREAD)
          /\ thread_data[w].duration_seconds =
                 LastValue("d", DEFAULT_DURATION_SECONDS)
          /\ thread_data[w].iterations_per_cycle =
                 LastValue("i", DEFAULT_ITERATIONS_PER_CYCLE)

\* C5 as stated: a command line on which any option carries a value outside
\* its range is rejected with status 1 before any worker starts, and values
\* inside the ranges reach the workers unchanged
C5_Original ==
    /\ (\E k \in 1..Len(argv) : Carries(k)) => Rejected
    /\ GivenUnchanged

\* C5 as amended: a command line is rejected with status 1 before any
\* worker starts when an option carries a value (as atoi converts it)
\* outside its range and no -h precedes that option; the workers of an
\* accepted command line get the value of the last occurrence of each
\* option, or the default, unchanged
C5_Validated ==
    /\ (\E k \in 1..Len(argv) :
           Carries(k) /\ \A j \in 1..(k - 1) : argv[j].opt # "h") => Rejected
    /\ GivenUnchanged

\* main has exited with status 1 at the second option, which carries a
\* value outside its range, after a first option that was in range
C5_Witness ==
    /\ mainpc = "exited"
    /\ exit_status = 1
    /\ optind = 3
    /\ Carries(2)
    /\ argv[1].opt \in {"t", "p", "d", "i"}
    /\ ~Carries(1)

\* C6 as stated: the exit status is 1 when a pthread_create call failed
C6_Original ==
    (mainpc = "exited" /\ createFailed # -1) => exit_status = 1

\* C7 as stated: after pthread_create failed for worker k, no worker above k
\* is created, the shutdown flag is set, and pthread_join is called only on
\* workers that were started
C7_Original ==
    createFailed # -1 =>
        /\ keep_running = 0
        /\ \A w \in Workers : w >= createFailed => threads[w] = "uninit"
        /\ joinCalls \subseteq Started

\* C8 as stated: once a worker failed to allocate its table, the process
\* does not end with status 0
C8_Original ==
    allocFailed # {} => ~(mainpc = "exited" /\ exit_status = 0)

\* C9 as stated: with no signal (and no allocation or pthread_create
\* failure) the process does not die, and when it has exited its status is 0
C9_Original ==
    (sigDelivered = "no" /\ createFailed = -1 /\ allocFailed = {}
       /\ Workers # {}) =>
        /\ ~crashed
        /\ mainpc = "exited" => exit_status = 0

\* C10 as stated: every worker that has returned added its counter to the
\* total exactly once, and at most one worker is inside the addition
C10_Original ==
    /\ \A w \in Workers : wpc[w] = "returned" => merges[w] = 1
    /\ Cardinality({ w \in Workers : wpc[w] = "store" }) <= 1

\* worker w takes a step
StepOf(w) == wpc'[w] # wpc[w] \/ wi'[w] # wi[w]

\* v is a region that worker w mapped and has not released
OwnsTarget(w, v) == v \in Addr /\ mapped[v] = w

\* the slot worker w is at holds the empty marker or a region of its own
OwnSlot(w) ==
    \/ memory_regions[w][wi[w] + 1] = MAP_FAILED
    \/ OwnsTarget(w, memory_regions[w][wi[w] + 1])

\* C11 as stated: every touch, access and unmap of a worker, in the three
\* phases and in the end-of-worker cleanup, goes to a region this worker
\* mapped and has not released (the slot it reads holds such a region or
\* the empty marker), and a region stops being mapped only in a step of
\* the worker that mapped it
C11_Original ==
    [][ /\ \A w \in Workers :
              StepOf(w) =>
                /\ wpc[w] = "touch" =>
                       OwnsTarget(w, memory_regions[w][wi[w] + 1])
                /\ (wpc[w] \in {"access", "unmap"} /\ PhaseContinues(w)) =>
                       OwnSlot(w)
                /\ (wpc[w] = "cleanup" /\ CleanupContinues(w)) => OwnSlot(w)
        /\ \A a \in Addr :
              (mapped[a] # NoOwner /\ mapped'[a] = NoOwner) =>
                  StepOf(mapped[a]) ]_vars

\* worker w moves on from the slot it is at: to the next slot of the phase
\* here, or from the last slot to the first slot of what follows
GoesOn(w, here, next) ==
    IF wi[w] + 1 < thread_data[w].iterations_per_cycle
    THEN wpc'[w] = here /\ wi'[w] = wi[w] + 1
    ELSE wpc'[w] = next /\ wi'[w] = 0

\* the flush counter of worker w is left as it was
SameCount(w) ==
    thread_data'[w].thread_tlb_flushes = thread_data[w].thread_tlb_flushes

\* C12: a step of a worker inside a cycle never sets the shutdown flag and
\* never ends the process; a map that failed leaves the empty marker in the
\* slot and the worker moves on to the next slot; the access and unmap
\* phases pass over an empty slot without touching memory, calling munmap or
\* counting; an unmap that failed leaves the counter as it was and the
\* worker moves on; and the test at the top of a cycle depends on the flag
\* and the clock alone, so the next cycle starts after any such failure
C12_FailuresRecoverable ==
    [][ \A w \in Workers :
          StepOf(w) =>
            /\ wpc[w] \in {"map", "touch", "access", "unmap"} =>
                 /\ keep_running' = keep_running
                 /\ mainpc' = mainpc
                 /\ exit_status' = exit_status
            /\ (wpc[w] = "map" /\ PhaseContinues(w) /\ mapped' = mapped) =>
                 /\ memory_regions'[w][wi[w] + 1] = MAP_FAILED
                 /\ GoesOn(w, "map", "access")
                 /\ ~crashed'
            /\ (wpc[w] = "access" /\ PhaseContinues(w)
                  /\ memory_regions[w][wi[w] + 1] = MAP_FAILED) =>
                 /\ GoesOn(w, "access", "unmap")
                 /\ SameCount(w)
                 /\ ~crashed'
            /\ (wpc[w] = "unmap" /\ PhaseContinues(w)
                  /\ memory_regions[w][wi[w] + 1] = MAP_FAILED) =>
                 /\ GoesOn(w, "unmap", "loop")
                 /\ SameCount(w)
                 /\ mapped' = mapped
                 /\ unmapFailed' = unmapFailed
                 /\ ~crashed'
            /\ (wpc[w] = "unmap" /\ PhaseContinues(w)
                  /\ OwnsTarget(w, memory_regions[w][wi[w] + 1])
                  /\ mapped' = mapped) =>
                 /\ GoesOn(w, "unmap", "loop")
                 /\ SameCount(w)
                 /\ ~crashed'
            /\ (wpc[w] = "loop" /\ keep_running = 1 /\ ~TimeIsUp(w)) =>
                 wpc'[w] = "map" ]_vars

\* a worker is in the map phase of a cycle after a munmap call of an
\* earlier cycle failed, the mmap call for the first slot of this cycle has
\* failed, and the worker is at the second slot
C12_Witness ==
    \E w \in Workers :
        /\ wpc[w] = "map"
        /\ wi[w] = 1
        /\ memory_regions[w][1] = MAP_FAILED
        /\ unmapFailed # {}
        /\ keep_running = 1
        /\ ~crashed
        /\ exit_status = -1

\* the slots of worker w's table from the k-th on
SlotsFrom(w, k) == { memory_regions[w][x] : x \in k..Len(memory_regions[w]) }

\* C13: when a worker is at the first slot of a map phase, its table is as
\* malloc left it (the first cycle) or every slot is the empty marker (a
\* later cycle); and a slot the map phase has yet to write never holds a
\* region, so no store of the map phase overwrites a handle
C13_NoOverwrite ==
    \A w \in Workers :
        wpc[w] = "map" =>
            /\ wi[w] = 0 =>
                  \/ SlotsFrom(w, 1) = {UNINIT}
                  \/ SlotsFrom(w, 1) = {MAP_FAILED}
            /\ SlotsFrom(w, wi[w] + 1) \cap Addr = {}

\* a worker that released a region in an earlier cycle has mapped a region
\* into the first slot again and is at the second slot, which is empty
C13_Witness ==
    \E w \in Workers :
        /\ wpc[w] = "map"
        /\ wi[w] = 1
        /\ thread_data[w].thread_tlb_flushes >= 1
        /\ memory_regions[w][1] \in Addr
        /\ memory_regions[w][2] = MAP_FAILED
        /\ keep_running = 1

\* C14: for values main accepted, region_size is pages_per_thread * 4096,
\* every byte offset the touch loop and the access loop compute lies in
\* [0, region_size), the page offset of the access loop lies in
\* [0, pages_per_thread), and no int product or sum overflowed
C14_OffsetsInRange ==
    inner # "none" =>
        /\ ~overflow
        /\ region_size = pages_per_thread * PAGE_SIZE
        /\ page >= 0 /\ page < region_size
        /\ page_offset >= 0 /\ page_offset < pages_per_thread

\* the access loop of the last slot of the largest table, over the largest
\* region (-p 100000 -i 10000, slot 9999), has computed the offset for
\* j = 4: (4 * 17 + 9999 * 13) % 100000 = 30055
C14_Witness ==
    /\ inner = "access"
    /\ pages_per_thread = MAX_PAGES_PER_THREAD
    /\ slot_i = MAX_ITERATIONS_PER_CYCLE - 1
    /\ wj = 8
    /\ page_offset = 30055
    /\ page = 30055 * PAGE_SIZE

=============================================================================
